---- MODULE Spec2Model ----
(***************************************************************************)
(* Model of the idea-vault server (src/index.js): the Express handlers,    *)
(* the message classifier guessType, the field extraction of the webhook   *)
(* handler, and the hosted store seen through its insert/select calls.     *)
(* Texts are sequences of one-character strings, so that the regular       *)
(* expressions, split, trim and join of the source are computed character  *)
(* by character.                                                           *)
(***************************************************************************)
EXTENDS Integers, Sequences, FiniteSets, TLC

\* ------------------------------------------------------------------------
\* JavaScript values that reach the handlers: undefined, null and strings.
Undef == [t |-> "undef", v |-> <<>>]
Null == [t |-> "null", v |-> <<>>]
Str(s) == [t |-> "str", v |-> s]
\* JS truthiness of such a value: undefined, null and '' are falsy.
Truthy(x) == x.t = "str" /\ x.v # <<>>
\* a || b
OrElse(a, b) == IF Truthy(a) THEN a ELSE b

\* ------------------------------------------------------------------------
\* Characters.
UpperCase == <<"A","B","C","D","E","F","G","H","I","J","K","L","M",
               "N","O","P","Q","R","S","T","U","V","W","X","Y","Z">>
LowerCase == <<"a","b","c","d","e","f","g","h","i","j","k","l","m",
               "n","o","p","q","r","s","t","u","v","w","x","y","z">>
\* Case folding of the regular expressions' i flag.
ToLower(c) ==
  IF \E i \in 1..26 : UpperCase[i] = c
  THEN LowerCase[CHOOSE i \in 1..26 : UpperCase[i] = c]
  ELSE c
\* \s of the regular expressions and the set String.prototype.trim strips.
IsWs(c) == c \in {" ", "\n", "\t", "\r"}
\* Line terminators: the characters "." does not match.
IsLineTerm(c) == c \in {"\n", "\r"}
IsDigit(c) == c \in {"0","1","2","3","4","5","6","7","8","9"}
\* [:\-]
IsColonDash(c) == c \in {":", "-"}

\* Literals of the source.
W_idea == <<"i","d","e","a">>
W_contact == <<"c","o","n","t","a","c","t">>
W_person == <<"p","e","r","s","o","n">>
W_tool == <<"t","o","o","l">>

\* The literal lit occurs in text at position i (1-based), ignoring case.
LitAt(text, i, lit) ==
  /\ i >= 1
  /\ i + Len(lit) - 1 <= Len(text)
  /\ \A k \in 1..Len(lit) : ToLower(text[i + k - 1]) = lit[k]

\* Position of the first character at or after i that is not whitespace
\* (Len(text)+1 when there is none): where a greedy \s* started at i stops.
RECURSIVE SkipWs(_, _)
SkipWs(text, i) ==
  IF i > Len(text) THEN i
  ELSE IF IsWs(text[i]) THEN SkipWs(text, i + 1) ELSE i

\* /^\s*(w1|w2|...)[:\-]/i.test(text)
TestPrefix(text, words) ==
  LET i == SkipWs(text, 1) IN
  \E w \in words :
    /\ LitAt(text, i, w)
    /\ i + Len(w) <= Len(text)
    /\ IsColonDash(text[i + Len(w)])

\* guessType falling back to tool for every text without prefix.
guessTypeDefaultTool(text, hasMedia) ==
  IF TestPrefix(text, {W_idea}) THEN "idea"
  ELSE IF TestPrefix(text, {W_contact, W_person}) THEN "person"
  ELSE "tool"

\* guessType looking at the media flag before the prefixes.
guessTypeMediaFirst(text, hasMedia) ==
  IF hasMedia THEN "tool"
  ELSE IF TestPrefix(text, {W_idea}) THEN "idea"
  ELSE IF TestPrefix(text, {W_contact, W_person}) THEN "person"
  ELSE IF TestPrefix(text, {W_tool}) THEN "tool"
  ELSE "unknown"

\* function guessType(text = '', hasMedia = false)
guessType(text, hasMedia) ==
  IF TestPrefix(text, {W_idea}) THEN "idea"
  ELSE IF TestPrefix(text, {W_contact, W_person}) THEN "person"
  ELSE IF TestPrefix(text, {W_tool}) THEN "tool"
  ELSE IF hasMedia THEN "tool"
  ELSE "unknown"

\* ------------------------------------------------------------------------
\* String operations of the field extraction.

\* text.replace(/^.*?(w1|w2|...)[:\-]\s*/i, ''): the lazy .*? stops at the
\* first position k such that the k characters before it hold no line
\* terminator and a word with its colon or dash follows; the match then
\* runs through the whitespace after it. Without a match text is unchanged.
PrefixStops(text, words) ==
  { k \in 0..Len(text) :
      /\ \A j \in 1..k : ~IsLineTerm(text[j])
      /\ \E w \in words :
           /\ LitAt(text, k + 1, w)
           /\ k + Len(w) + 1 <= Len(text)
           /\ IsColonDash(text[k + Len(w) + 1]) }

StripPrefix(text, words) ==
  LET stops == PrefixStops(text, words) IN
  IF stops = {} THEN text
  ELSE LET k == CHOOSE x \in stops : \A y \in stops : x <= y
           w == CHOOSE x \in words :
                  /\ LitAt(text, k + 1, x)
                  /\ k + Len(x) + 1 <= Len(text)
                  /\ IsColonDash(text[k + Len(x) + 1])
           e == SkipWs(text, k + Len(w) + 2)
       IN SubSeq(text, e, Len(text))

\* text.split(sep) for a one-character separator: always at least one part.
RECURSIVE SplitFrom(_, _, _, _)
SplitFrom(text, sep, i, cur) ==
  IF i > Len(text) THEN <<cur>>
  ELSE IF text[i] = sep THEN <<cur>> \o SplitFrom(text, sep, i + 1, <<>>)
  ELSE SplitFrom(text, sep, i + 1, Append(cur, text[i]))

Split(text, sep) == SplitFrom(text, sep, 1, <<>>)

\* parts.join(sep)
RECURSIVE Join(_, _)
Join(parts, sep) ==
  IF parts = <<>> THEN <<>>
  ELSE IF Len(parts) = 1 THEN parts[1]
  ELSE parts[1] \o <<sep>> \o Join(Tail(parts), sep)

\* Position of the last character that is not whitespace (0 when none).
RECURSIVE LastNonWs(_, _)
LastNonWs(text, i) ==
  IF i < 1 THEN 0
  ELSE IF IsWs(text[i]) THEN LastNonWs(text, i - 1) ELSE i

\* text.trim()
Trim(text) == SubSeq(text, SkipWs(text, 1), LastNonWs(text, Len(text)))

\* s || dflt on texts: the empty string is falsy.
TextOr(s, dflt) == IF s # <<>> THEN s ELSE dflt
\* s || null
TextOrNull(s) == IF s # <<>> THEN Str(s) ELSE Null
\* parts[i] || null with a 0-based index, undefined past the end
PartOrNull(parts, i) ==
  IF i + 1 <= Len(parts) THEN TextOrNull(parts[i + 1]) ELSE Null

\* /\d{3}.*\d{4}/.test(p)
TestPhone(p) ==
  \E i \in 1..Len(p), j \in 1..Len(p) :
    /\ i + 2 <= Len(p) /\ j + 3 <= Len(p) /\ j >= i + 3
    /\ \A k \in i..(i + 2) : IsDigit(p[k])
    /\ \A k \in j..(j + 3) : IsDigit(p[k])
    /\ \A k \in (i + 3)..(j - 1) : ~IsLineTerm(p[k])

\* /@/.test(p)
TestAt(p) == \E i \in 1..Len(p) : p[i] = "@"

\* parts.find(test) || null, test given as the set of parts that pass
FindOrNull(parts, passing) ==
  LET hits == { i \in 1..Len(parts) : parts[i] \in passing } IN
  IF hits = {} THEN Null
  ELSE TextOrNull(parts[CHOOSE i \in hits : \A j \in hits : i <= j])

T_UntitledIdea == <<"U","n","t","i","t","l","e","d"," ","I","d","e","a">>
T_Unknown == <<"U","n","k","n","o","w","n">>
T_UnknownTool == <<"U","n","k","n","o","w","n"," ","T","o","o","l">>

\* The idea branch of the webhook: the row it inserts for body.
IdeaRow(body) ==
  LET cleaned == StripPrefix(body, {W_idea})
      lines == Split(cleaned, "\n")
  IN [title |-> Str(Trim(TextOr(lines[1], T_UntitledIdea))),
      summary |-> TextOrNull(Trim(Join(Tail(lines), "\n")))]

\* The person branch of the webhook.
PersonRow(body) ==
  LET cleaned == StripPrefix(body, {W_contact, W_person})
      raw == Split(cleaned, ",")
      parts == [i \in 1..Len(raw) |-> Trim(raw[i])]
  IN [name |-> Str(TextOr(parts[1], T_Unknown)),
      phone |-> FindOrNull(parts, { parts[i] : i \in { j \in 1..Len(parts) : TestPhone(parts[j]) } }),
      email |-> FindOrNull(parts, { parts[i] : i \in { j \in 1..Len(parts) : TestAt(parts[j]) } }),
      company |-> PartOrNull(parts, 3),
      role |-> PartOrNull(parts, 4),
      location |-> PartOrNull(parts, 5)]

\* The tool branch of the webhook.
ToolRow(body) ==
  LET cleaned == StripPrefix(body, {W_tool})
      raw == Split(cleaned, "|")
      parts == [i \in 1..Len(raw) |-> Trim(raw[i])]
  IN [name |-> Str(TextOr(parts[1], T_UnknownTool)),
      url |-> PartOrNull(parts, 1),
      description |-> PartOrNull(parts, 2)]

\* ------------------------------------------------------------------------
\* State.

VARIABLES
  apiKey,   \* process.env.API_KEY, read by checkKey on every request
  db,       \* the store: for each table its rows in order of creation
  req,      \* for each handler slot, the request it is serving
  nreq,     \* number of requests admitted so far
  up,       \* the Node process is alive
  cap,      \* number of requests this run of the model admits
  cText,    \* classifier harness: the text given to guessType
  cMedia,   \* classifier harness: the hasMedia flag
  cType     \* classifier harness: the result, "none" before the call

vars == <<apiKey, db, req, nreq, up, cap, cText, cMedia, cType>>

\* Requests admitted in one run of the server that serves one request at a
\* time, and in one run of the server that serves two at once.
MaxRequests == 1
MaxConcurrent == 2

Tables == {"ingestion_event", "idea", "person", "tool",
           "idea_note", "idea_source", "idea_fact"}

EmptyDb == [t \in Tables |-> <<>>]

\* Handler slots: two requests may be in flight at once.
Slots == {1, 2}

\* What a call of the store client can do: succeed, resolve with an error
\* object ({error}), or reject (the await throws).
Outcomes == {"ok", "error", "throw"}

NoOp == [op |-> "none", table |-> "none", cols |-> <<>>]
InsertOp(table, cols) == [op |-> "insert", table |-> table, cols |-> cols]
SelectOp(table, q) == [op |-> "select", table |-> table, cols |-> q]

Idle ==
  [kind |-> "none", pc |-> "idle", hdr |-> Undef, qk |-> Undef, in |-> <<>>,
   ops |-> <<>>, sent |-> <<>>, pend |-> NoOp, loc |-> <<>>, alone |-> TRUE,
   seen |-> [t \in Tables |-> 0]]

InFlight(r) == r.pc \notin {"idle", "done", "dead"}

\* The store appends a row: ids are serial, creation time is the position.
InsertRow(d, table, cols) ==
  [d EXCEPT ![table] = Append(@, [id |-> Len(@) + 1, cols |-> cols])]

\* The request as the handler leaves it at an await on a store call.
Await(r, pc, pend, loc) == [r EXCEPT !.pc = pc, !.pend = pend, !.loc = loc]

\* The request after the pending store call came back with outcome o; id is
\* the id of the row it wrote, 0 when it wrote none.
Did(r, o, id) ==
  [r EXCEPT !.ops = Append(@, [op |-> r.pend.op, table |-> r.pend.table,
                               res |-> o, id |-> id]),
            !.pend = NoOp]

\* res.status(status).send(body) / .json(body) / .redirect(...)
Respond(r, status, body) ==
  [r EXCEPT !.pc = "done", !.pend = NoOp,
            !.sent = Append(@, [status |-> status, body |-> body])]

XmlAck == [k |-> "xml", d |-> "<Response></Response>"]
JsonError(e) == [k |-> "error", d |-> e]
JsonOk(field, val) == [k |-> "ok", d |-> <<field, val>>]
JsonRows(rows) == [k |-> "rows", d |-> rows]
Text(t) == [k |-> "text", d |-> t]
Redirect(to) == [k |-> "redirect", d |-> to]

\* A slot takes a new request when it serves none.
CanAdmit(s) == up /\ req[s].pc = "idle" /\ nreq < cap

\* The response is out and the handler has returned: the request is over.
Close(s) ==
  /\ up /\ req[s].pc = "done"
  /\ req' = [req EXCEPT ![s] = Idle]
  /\ UNCHANGED <<apiKey, db, nreq, up, cap, cText, cMedia, cType>>

\* Slot s starts serving r; requests in flight in other slots are no longer
\* alone, and r is alone when it starts with no other request in flight.
\* seen records how many rows each table held when r arrived.
Admit(s, r) ==
  /\ req' = [x \in Slots |->
               IF x = s
               THEN [r EXCEPT !.alone = \A y \in Slots \ {s} : ~InFlight(req[y]),
                              !.seen = [t \in Tables |-> Len(db[t])]]
               ELSE IF InFlight(req[x]) THEN [req[x] EXCEPT !.alone = FALSE]
               ELSE req[x]]
  /\ nreq' = nreq + 1

NewReq(kind, hdr, qk, in) ==
  [Idle EXCEPT !.kind = kind, !.hdr = hdr, !.qk = qk, !.in = in]

\* checkKey that only looks whether a key was sent.
checkKeyPresent(r) ==
  LET k == OrElse(r.hdr, r.qk) IN
  Truthy(k) /\ Truthy(apiKey)

\* function checkKey(req)
checkKey(r) ==
  LET k == OrElse(r.hdr, r.qk) IN
  Truthy(k) /\ Truthy(apiKey) /\ k = apiKey

\* ------------------------------------------------------------------------
\* Number(x) on the values the handlers convert: the empty string is 0, a
\* string of decimal digits its value, "Infinity" is Infinity, any other
\* text of the model's inputs NaN. Numbers are [k, n].
T_Infinity == <<"I","n","f","i","n","i","t","y">>
DigitVal(c) == CHOOSE n \in 0..9 : <<"0","1","2","3","4","5","6","7","8","9">>[n + 1] = c

RECURSIVE DigitsVal(_, _)
DigitsVal(text, acc) ==
  IF text = <<>> THEN acc
  ELSE DigitsVal(Tail(text), 10 * acc + DigitVal(Head(text)))

ToNumber(x) ==
  IF x.t = "num" THEN [k |-> "num", n |-> x.v[1]]
  ELSE IF x.t = "null" THEN [k |-> "num", n |-> 0]
  ELSE IF x.t # "str" THEN [k |-> "nan", n |-> 0]
  ELSE LET tx == Trim(x.v) IN
       IF tx = T_Infinity THEN [k |-> "inf", n |-> 0]
       ELSE IF \A i \in 1..Len(tx) : IsDigit(tx[i])
            THEN [k |-> "num", n |-> DigitsVal(tx, 0)]
            ELSE [k |-> "nan", n |-> 0]

Num(n) == [t |-> "num", v |-> <<n>>]

\* ------------------------------------------------------------------------
\* Routing: app.get/app.post register handlers in this order, and a request
\* goes to the first registered handler whose method and path match; none of
\* the handlers calls next().
Routes ==
  << [method |-> "GET", path |-> "/", h |-> "health"],
     [method |-> "POST", path |-> "/twilio/webhook", h |-> "webhook"],
     [method |-> "POST", path |-> "/api/quick-add", h |-> "quick"],
     [method |-> "POST", path |-> "/api/research-add", h |-> "research"],
     [method |-> "GET", path |-> "/add", h |-> "add"],
     [method |-> "GET", path |-> "/api/list", h |-> "list"],
     [method |-> "GET", path |-> "/api/idea/:id/research", h |-> "read"],
     [method |-> "GET", path |-> "/app", h |-> "app"],
     [method |-> "GET", path |-> "/", h |-> "home"] >>

Dispatch(method, path) ==
  LET hits == { i \in 1..Len(Routes) :
                  Routes[i].method = method /\ Routes[i].path = path } IN
  IF hits = {} THEN "none"
  ELSE Routes[CHOOSE i \in hits : \A j \in hits : i <= j].h

\* app.get('/', ...): the handler the request reaches answers it.
GetRoot(s) ==
  /\ CanAdmit(s)
  /\ LET r0 == NewReq("root", Undef, Undef, <<>>)
         h == Dispatch("GET", "/") IN
     /\ h \in {"health", "home"}
     /\ Admit(s, IF h = "health" THEN Respond(r0, 200, Text("ok"))
                 ELSE Respond(r0, 302, Redirect("/app")))
  /\ UNCHANGED <<apiKey, db, up, cap, cText, cMedia, cType>>

\* ------------------------------------------------------------------------
\* POST /twilio/webhook

\* req.body[`MediaUrl${i}`]: undefined when the field is not in the body.
MediaField(fields, i) == IF i + 1 <= Len(fields) THEN fields[i + 1] ELSE Undef

\* How the media loop ends when mediaCount is Infinity: i < mediaCount never
\* fails and media grows without bound, so the process dies out of memory,
\* or, with memory for it, push throws RangeError at the maximal array
\* length and the handler's catch answers.
LoopEnds == {"oom", "range"}

WebhookStart(s, in) ==
  /\ CanAdmit(s)
  /\ Dispatch("POST", "/twilio/webhook") = "webhook"
  /\ LET from == OrElse(in.From, Str(<<>>))
         body == OrElse(in.Body, Str(<<>>))
         mediaCount == ToNumber(OrElse(in.NumMedia, Num(0)))
         r0 == NewReq("webhook", Undef, Undef, in)
     IN IF mediaCount.k = "inf"
        THEN \E e \in LoopEnds :
               IF e = "oom"
               THEN Admit(s, [r0 EXCEPT !.pc = "dead"]) /\ up' = FALSE
               ELSE Admit(s, Respond(r0, 500, XmlAck)) /\ up' = up
        ELSE LET n == IF mediaCount.k = "num" THEN mediaCount.n ELSE 0
                 media == [i \in 1..n |->
                             [url |-> MediaField(in.MediaUrl, i - 1),
                              type |-> MediaField(in.MediaContentType, i - 1)]]
             IN /\ Admit(s, Await(r0, "log",
                              InsertOp("ingestion_event",
                                       [from_number |-> from, body |-> body,
                                        media |-> media]),
                              [body |-> body.v,
                               hasMedia |-> mediaCount.k = "num" /\ mediaCount.n > 0]))
                /\ up' = up
  /\ UNCHANGED <<apiKey, db, cap, cText, cMedia, cType>>

\* The record the handler inserts for a classified body.
TypedInsert(type, body) ==
  IF type = "idea" THEN InsertOp("idea", IdeaRow(body))
  ELSE IF type = "person" THEN InsertOp("person", PersonRow(body))
  ELSE InsertOp("tool", ToolRow(body))

\* The insert into ingestion_event came back; its result is not looked at.
WebhookLogged(s, o) ==
  /\ up /\ req[s].kind = "webhook" /\ req[s].pc = "log"
  /\ LET r == req[s]
         wrote == o = "ok"
         r1 == Did(r, o, IF wrote THEN Len(db[r.pend.table]) + 1 ELSE 0)
         type == guessType(r.loc.body, r.loc.hasMedia)
     IN /\ db' = IF wrote THEN InsertRow(db, r.pend.table, r.pend.cols) ELSE db
        /\ req' = [req EXCEPT ![s] =
                     IF o = "throw" THEN Respond(r1, 500, XmlAck)
                     ELSE IF type \in {"idea", "person", "tool"}
                          THEN Await(r1, "rec", TypedInsert(type, r.loc.body), r.loc)
                          ELSE Respond(r1, 200, XmlAck)]
  /\ UNCHANGED <<apiKey, nreq, up, cap, cText, cMedia, cType>>

\* The typed insert came back; its result is not looked at either.
WebhookRecorded(s, o) ==
  /\ up /\ req[s].kind = "webhook" /\ req[s].pc = "rec"
  /\ LET r == req[s]
         wrote == o = "ok"
         r1 == Did(r, o, IF wrote THEN Len(db[r.pend.table]) + 1 ELSE 0)
     IN /\ db' = IF wrote THEN InsertRow(db, r.pend.table, r.pend.cols) ELSE db
        /\ req' = [req EXCEPT ![s] =
                     IF o = "throw" THEN Respond(r1, 500, XmlAck)
                     ELSE Respond(r1, 200, XmlAck)]
  /\ UNCHANGED <<apiKey, nreq, up, cap, cText, cMedia, cType>>

\* ------------------------------------------------------------------------
\* POST /api/quick-add

Obj(fields) == [t |-> "obj", v |-> <<>>, o |-> fields]
\* Destructuring a field out of (x || {}).
Field(x, name) ==
  IF x.t = "obj" THEN (IF name \in DOMAIN x.o THEN x.o[name] ELSE Undef)
  ELSE Undef
\* x || null
OrNull(x) == IF Truthy(x) THEN x ELSE Null

\* The validation that does not look at an idea's title.
QuickErrorNoTitle(in) ==
  IF ~Truthy(in.type) THEN "missing type"
  ELSE IF in.type = Str(W_idea) THEN ""
  ELSE IF in.type = Str(W_person)
  THEN (IF ~Truthy(Field(in.payload, "name")) THEN "name required" ELSE "")
  ELSE IF in.type = Str(W_tool)
  THEN (IF ~Truthy(Field(in.payload, "name")) THEN "name required" ELSE "")
  ELSE "unknown type"

\* The validation of { type, payload }: the error the handler answers 400
\* with, "" when the body passes.
QuickError(in) ==
  IF ~Truthy(in.type) THEN "missing type"
  ELSE IF in.type = Str(W_idea)
  THEN (IF ~Truthy(Field(in.payload, "title")) THEN "title required" ELSE "")
  ELSE IF in.type = Str(W_person)
  THEN (IF ~Truthy(Field(in.payload, "name")) THEN "name required" ELSE "")
  ELSE IF in.type = Str(W_tool)
  THEN (IF ~Truthy(Field(in.payload, "name")) THEN "name required" ELSE "")
  ELSE "unknown type"

\* The insert of a body that passes.
QuickInsert(in) ==
  LET p == in.payload IN
  IF in.type = Str(W_idea)
  THEN InsertOp("idea", [title |-> Field(p, "title"),
                         summary |-> OrNull(Field(p, "summary"))])
  ELSE IF in.type = Str(W_person)
  THEN InsertOp("person",
                [f \in {"name", "phone", "email", "company", "role", "school",
                        "location"} |-> Field(p, f)])
  ELSE InsertOp("tool",
                [f \in {"name", "url", "category", "description"} |-> Field(p, f)])

QuickAddStart(s, hdr, qk, in) ==
  /\ CanAdmit(s)
  /\ Dispatch("POST", "/api/quick-add") = "quick"
  /\ LET r0 == NewReq("quick", hdr, qk, in) IN
     Admit(s,
       IF ~checkKey(r0) THEN Respond(r0, 401, JsonError("bad key"))
       ELSE IF QuickError(in) # "" THEN Respond(r0, 400, JsonError(QuickError(in)))
       ELSE Await(r0, "ins", QuickInsert(in), <<>>))
  /\ UNCHANGED <<apiKey, db, up, cap, cText, cMedia, cType>>

\* The insert came back: its result is not looked at, only a rejection
\* reaches the catch.
QuickAddInserted(s, o) ==
  /\ up /\ req[s].kind = "quick" /\ req[s].pc = "ins"
  /\ LET r == req[s]
         wrote == o = "ok"
         r1 == Did(r, o, IF wrote THEN Len(db[r.pend.table]) + 1 ELSE 0)
     IN /\ db' = IF wrote THEN InsertRow(db, r.pend.table, r.pend.cols) ELSE db
        /\ req' = [req EXCEPT ![s] =
                     IF o = "throw" THEN Respond(r1, 500, JsonError("server error"))
                     ELSE Respond(r1, 200, JsonOk("type", r.in.type))]
  /\ UNCHANGED <<apiKey, nreq, up, cap, cText, cMedia, cType>>

\* ------------------------------------------------------------------------
\* POST /api/research-add

W_note == <<"n","o","t","e">>
W_ref == <<"r","e","f">>
W_fact == <<"f","a","c","t">>

\* Number(x) || null as it reaches the store: 0 and NaN are falsy, and JSON
\* writes Infinity as null.
NumberOrNull(x) ==
  LET n == ToNumber(x) IN
  IF n.k = "num" /\ n.n # 0 THEN Num(n.n) ELSE Null

\* .select(...).eq(col, val).order('created_at', {ascending: false}): the
\* rows of the table whose column equals val, most recently created first.
Reverse(rows) == [i \in 1..Len(rows) |-> rows[Len(rows) - i + 1]]

\* The same rows in ascending order of creation.
WhereAsc(rows, col, val) ==
  SelectSeq(rows, LAMBDA row : col \in DOMAIN row.cols /\ row.cols[col] = val)

\* A lookup that matches no row.
WhereNone(rows, col, val) == <<>>

WhereDesc(rows, col, val) ==
  Reverse(SelectSeq(rows, LAMBDA row : col \in DOMAIN row.cols /\ row.cols[col] = val))

\* A select without its limit.
LimitNone(rows, n) == rows

\* .limit(n)
Limit(rows, n) == IF Len(rows) <= n THEN rows ELSE SubSeq(rows, 1, n)

ResearchAddStart(s, hdr, qk, in) ==
  /\ CanAdmit(s)
  /\ Dispatch("POST", "/api/research-add") = "research"
  /\ LET r0 == NewReq("research", hdr, qk, in) IN
     Admit(s,
       IF ~checkKey(r0) THEN Respond(r0, 401, JsonError("bad key"))
       ELSE IF ~Truthy(in.rtype) \/ ~Truthy(in.idea_title)
       THEN Respond(r0, 400, JsonError("missing rtype or idea_title"))
       ELSE LET title == Trim(in.idea_title.v) IN
            Await(r0, "find", SelectOp("idea", [title |-> Str(title)]),
                  [title |-> title, ideaId |-> 0]))
  /\ UNCHANGED <<apiKey, db, up, cap, cText, cMedia, cType>>

\* The handler after getIdeaId returned ideaId: the per-rtype validation and
\* the child insert it awaits.
AfterIdea(r, ideaId) ==
  LET in == r.in
      loc == [r.loc EXCEPT !.ideaId = ideaId]
  IN
  IF in.rtype = Str(W_note)
  THEN IF ~Truthy(in.note) THEN Respond(r, 400, JsonError("note required"))
       ELSE Await(r, "child",
                  InsertOp("idea_note", [idea_id |-> ideaId, content |-> in.note]),
                  loc)
  ELSE IF in.rtype = Str(W_ref)
  THEN IF ~Truthy(in.source_url) /\ ~Truthy(in.source_title)
       THEN Respond(r, 400, JsonError("source_url or source_title required"))
       ELSE Await(r, "child",
                  InsertOp("idea_source",
                           [idea_id |-> ideaId,
                            kind |-> IF Truthy(in.source_url) THEN "url" ELSE "other",
                            url |-> OrNull(in.source_url),
                            title |-> OrNull(in.source_title)]),
                  loc)
  ELSE IF in.rtype = Str(W_fact)
  THEN IF ~Truthy(in.fact)
       THEN Respond(r, 400, JsonError("fact (statement) required"))
       ELSE Await(r, "child",
                  InsertOp("idea_fact",
                           [idea_id |-> ideaId, statement |-> in.fact,
                            source_url |-> OrNull(in.source_url),
                            confidence |-> NumberOrNull(in.confidence)]),
                  loc)
  ELSE Respond(r, 400, JsonError("unknown rtype"))

\* getIdeaId: the lookup came back.
ResearchFound(s, o) ==
  /\ up /\ req[s].kind = "research" /\ req[s].pc = "find"
  /\ LET r == req[s]
         r1 == Did(r, o, 0)
         data == Limit(WhereDesc(db["idea"], "title", r.pend.cols.title), 1)
     IN req' = [req EXCEPT ![s] =
                  IF o # "ok" THEN Respond(r1, 500, JsonError("server error"))
                  ELSE IF data # <<>> THEN AfterIdea(r1, data[1].id)
                  ELSE Await(r1, "create",
                             InsertOp("idea", [title |-> Str(r.loc.title)]), r.loc)]
  /\ UNCHANGED <<apiKey, db, nreq, up, cap, cText, cMedia, cType>>

\* getIdeaId: the insert of the new idea came back.
ResearchCreated(s, o) ==
  /\ up /\ req[s].kind = "research" /\ req[s].pc = "create"
  /\ LET r == req[s]
         id == Len(db["idea"]) + 1
         r1 == Did(r, o, IF o = "ok" THEN id ELSE 0)
     IN /\ db' = IF o = "ok" THEN InsertRow(db, "idea", r.pend.cols) ELSE db
        /\ req' = [req EXCEPT ![s] =
                     IF o # "ok" THEN Respond(r1, 500, JsonError("server error"))
                     ELSE AfterIdea(r1, id)]
  /\ UNCHANGED <<apiKey, nreq, up, cap, cText, cMedia, cType>>

\* The insert of the child row came back.
ResearchChildDone(s, o) ==
  /\ up /\ req[s].kind = "research" /\ req[s].pc = "child"
  /\ LET r == req[s]
         wrote == o = "ok"
         r1 == Did(r, o, IF wrote THEN Len(db[r.pend.table]) + 1 ELSE 0)
     IN /\ db' = IF wrote THEN InsertRow(db, r.pend.table, r.pend.cols) ELSE db
        /\ req' = [req EXCEPT ![s] =
                     IF o # "ok" THEN Respond(r1, 500, JsonError("server error"))
                     ELSE Respond(r1, 200, JsonOk("rtype", r.in.rtype))]
  /\ UNCHANGED <<apiKey, nreq, up, cap, cText, cMedia, cType>>

\* ------------------------------------------------------------------------
\* GET /api/list

ListLimit == 200

\* (req.query.type || '').toString()
QueryText(x) == IF Truthy(x) THEN x.v ELSE <<>>

\* supabase.from(type): the table a listed type names.
TableOf(type) ==
  IF type = W_idea THEN "idea" ELSE IF type = W_person THEN "person" ELSE "tool"

ListStart(s, hdr, qk, in) ==
  /\ CanAdmit(s)
  /\ Dispatch("GET", "/api/list") = "list"
  /\ LET r0 == NewReq("list", hdr, qk, in)
         type == QueryText(in.type)
     IN Admit(s,
          IF ~checkKey(r0) THEN Respond(r0, 401, JsonError("bad key"))
          ELSE IF type \notin {W_idea, W_person, W_tool}
          THEN Respond(r0, 400, JsonError("bad type"))
          ELSE Await(r0, "sel", SelectOp(TableOf(type), <<>>), <<>>))
  /\ UNCHANGED <<apiKey, db, up, cap, cText, cMedia, cType>>

ListSelected(s, o) ==
  /\ up /\ req[s].kind = "list" /\ req[s].pc = "sel"
  /\ LET r == req[s]
         r1 == Did(r, o, 0)
     IN req' = [req EXCEPT ![s] =
                  IF o # "ok" THEN Respond(r1, 500, JsonError("server error"))
                  ELSE Respond(r1, 200,
                               JsonRows(Limit(Reverse(db[r.pend.table]), ListLimit)))]
  /\ UNCHANGED <<apiKey, db, nreq, up, cap, cText, cMedia, cType>>

\* ------------------------------------------------------------------------
\* GET /api/idea/:id/research

ReadStart(s, hdr, qk, in) ==
  /\ CanAdmit(s)
  /\ Dispatch("GET", "/api/idea/:id/research") = "read"
  /\ LET r0 == NewReq("read", hdr, qk, in) IN
     Admit(s,
       IF ~checkKey(r0) THEN Respond(r0, 401, JsonError("bad key"))
       ELSE Await(r0, "sel3", SelectOp("idea_note", [idea_id |-> in.id]), <<>>))
  /\ UNCHANGED <<apiKey, db, up, cap, cText, cMedia, cType>>

\* Promise.all over the three selects: it rejects when one of them rejects;
\* otherwise each result's error is thrown in turn.
ReadSelected(s, on, os, of) ==
  /\ up /\ req[s].kind = "read" /\ req[s].pc = "sel3"
  /\ LET r == req[s]
         id == r.in.id
         r1 == [r EXCEPT !.pend = NoOp,
                         !.ops = @ \o << [op |-> "select", table |-> "idea_note", res |-> on, id |-> 0],
                                         [op |-> "select", table |-> "idea_source", res |-> os, id |-> 0],
                                         [op |-> "select", table |-> "idea_fact", res |-> of, id |-> 0] >>]
     IN req' = [req EXCEPT ![s] =
                  IF {on, os, of} # {"ok"}
                  THEN Respond(r1, 500, JsonError("server error"))
                  ELSE Respond(r1, 200,
                               [k |-> "research",
                                d |-> [notes |-> WhereDesc(db["idea_note"], "idea_id", id),
                                       refs |-> WhereDesc(db["idea_source"], "idea_id", id),
                                       facts |-> WhereDesc(db["idea_fact"], "idea_id", id)]])]
  /\ UNCHANGED <<apiKey, db, nreq, up, cap, cText, cMedia, cType>>

\* ------------------------------------------------------------------------
\* The requests the model sends.

K_good == <<"k">>
K_bad == <<"x">>

\* <<x-api-key header, key query parameter>>
KeyPairs ==
  { <<Undef, Undef>>, <<Str(K_good), Undef>>, <<Str(K_bad), Undef>>,
    <<Undef, Str(K_good)>>, <<Undef, Str(K_bad)>>, <<Str(K_bad), Str(K_good)>> }

T_A == <<"A">>
T_B == <<"B">>

WebhookBodies ==
  { Undef,
    Str(<<"h","i">>),
    Str(<<"i","d","e","a",":"," ","A","\n","B">>),
    Str(<<" ","\n","i","d","e","a",":","A">>),
    Str(<<"I","D","E","A","-"," ">>),
    Str(<<"p","e","r","s","o","n",":","J",",","5","5","5","1","2","3","4">>),
    Str(<<"t","o","o","l","-","F","|","u">>),
    Str(<<"m","y"," ","t","o","o","l",":","F">>) }

\* <<NumMedia, MediaUrlN..., MediaContentTypeN...>>
WebhookMedia ==
  { <<Undef, <<>>, <<>>>>,
    <<Str(<<"1">>), <<Str(<<"u">>)>>, <<Str(<<"t">>)>>>>,
    <<Str(<<"I","n","f","i","n","i","t","y">>), <<>>, <<>>>>,
    <<Str(<<"n","o">>), <<>>, <<>>>> }

WebhookInputs ==
  { [From |-> Str(<<"+","1">>), Body |-> b, NumMedia |-> m[1],
     MediaUrl |-> m[2], MediaContentType |-> m[3]] :
      b \in WebhookBodies, m \in WebhookMedia }

QuickTypes == { Undef, Str(W_idea), Str(W_person), Str(W_tool), Str(<<"x">>) }

QuickPayloads ==
  { Undef,
    Obj([title |-> Str(T_A)]),
    Obj([title |-> Str(<<>>), summary |-> Str(T_B)]),
    Obj([name |-> Str(<<"N">>), url |-> Str(<<"u">>)]) }

QuickInputs == { [type |-> t, payload |-> p] : t \in QuickTypes, p \in QuickPayloads }

ResearchTypes == { Undef, Str(W_note), Str(W_ref), Str(W_fact), Str(<<"x">>) }
ResearchTitles == { Undef, Str(<<" ">>), Str(T_A), Str(<<" ","A"," ">>) }
\* <<note, source_url, source_title, fact, confidence>>
ResearchFields ==
  { <<Undef, Undef, Undef, Undef, Undef>>,
    <<Str(<<"n">>), Undef, Undef, Undef, Undef>>,
    <<Undef, Str(<<"u">>), Undef, Undef, Undef>>,
    <<Undef, Undef, Str(<<"s">>), Undef, Undef>>,
    <<Undef, Undef, Undef, Str(<<"f">>), Str(<<"3">>)>> }

ResearchInputs ==
  { [rtype |-> t, idea_title |-> i, note |-> f[1], source_url |-> f[2],
     source_title |-> f[3], fact |-> f[4], confidence |-> f[5]] :
      t \in ResearchTypes, i \in ResearchTitles, f \in ResearchFields }

ListInputs ==
  { [type |-> t] : t \in { Undef, Str(W_idea), Str(W_person), Str(W_tool),
                           Str(<<"i","d","e","a","s">>) } }

ReadInputs == { [id |-> i] : i \in {1, 2} }

\* ------------------------------------------------------------------------
\* The server, serving one request at a time.

\* A store an earlier run of the server left: two ideas of the same title
\* around one of another title, and a note on the first.
SeededDb ==
  [EmptyDb EXCEPT
     !["idea"] = << [id |-> 1, cols |-> [title |-> Str(T_A), summary |-> Null]],
                    [id |-> 2, cols |-> [title |-> Str(T_B), summary |-> Null]],
                    [id |-> 3, cols |-> [title |-> Str(T_A)]] >>,
     !["idea_note"] = << [id |-> 1, cols |-> [idea_id |-> 1, content |-> Str(<<"n">>)]] >>]

InitHarness == cText = <<>> /\ cMedia = FALSE /\ cType = "none"

Init ==
  /\ apiKey = Str(K_good)
  /\ db \in {EmptyDb, SeededDb}
  /\ req = [s \in Slots |-> Idle]
  /\ nreq = 0
  /\ up = TRUE
  /\ cap = MaxRequests
  /\ InitHarness

Next ==
  \/ GetRoot(1)
  \/ \E in \in WebhookInputs : WebhookStart(1, in)
  \/ \E o \in Outcomes : WebhookLogged(1, o)
  \/ \E o \in Outcomes : WebhookRecorded(1, o)
  \/ \E k \in KeyPairs, in \in QuickInputs : QuickAddStart(1, k[1], k[2], in)
  \/ \E o \in Outcomes : QuickAddInserted(1, o)
  \/ \E k \in KeyPairs, in \in ResearchInputs : ResearchAddStart(1, k[1], k[2], in)
  \/ \E o \in Outcomes : ResearchFound(1, o)
  \/ \E o \in Outcomes : ResearchCreated(1, o)
  \/ \E o \in Outcomes : ResearchChildDone(1, o)
  \/ \E k \in KeyPairs, in \in ListInputs : ListStart(1, k[1], k[2], in)
  \/ \E o \in Outcomes : ListSelected(1, o)
  \/ \E k \in KeyPairs, in \in ReadInputs : ReadStart(1, k[1], k[2], in)
  \/ \E o1 \in Outcomes, o2 \in Outcomes, o3 \in Outcomes : ReadSelected(1, o1, o2, o3)
  \/ Close(1)

Spec == Init /\ [][Next]_vars

\* ------------------------------------------------------------------------
\* The server serving two requests at once: handlers interleave at their
\* awaits. The requests are research-adds and quick-adds of ideas.

RaceInputs ==
  { [rtype |-> t, idea_title |-> i, note |-> f[1], source_url |-> f[2],
     source_title |-> Undef, fact |-> Undef, confidence |-> Undef] :
      t \in { Str(W_note), Str(W_ref) },
      i \in { Str(T_A), Str(<<" ","A"," ">>), Str(<<"C">>) },
      f \in { <<Undef, Undef>>, <<Str(<<"n">>), Str(<<"u">>)>> } }

RaceQuickInputs == { [type |-> Str(W_idea), payload |-> Obj([title |-> Str(T_A)])] }

InitConc ==
  /\ apiKey = Str(K_good)
  /\ db \in {EmptyDb, SeededDb}
  /\ req = [s \in Slots |-> Idle]
  /\ nreq = 0
  /\ up = TRUE
  /\ cap = MaxConcurrent
  /\ InitHarness

NextConc ==
  \E s \in Slots :
    \/ \E in \in RaceInputs : ResearchAddStart(s, Str(K_good), Undef, in)
    \/ \E o \in Outcomes : ResearchFound(s, o)
    \/ \E o \in Outcomes : ResearchCreated(s, o)
    \/ \E o \in Outcomes : ResearchChildDone(s, o)
    \/ \E in \in RaceQuickInputs : QuickAddStart(s, Undef, Str(K_good), in)
    \/ \E o \in Outcomes : QuickAddInserted(s, o)
    \/ Close(s)

SpecConc == InitConc /\ [][NextConc]_vars

\* ------------------------------------------------------------------------
\* The server over a store whose person table is about as long as the list
\* limit.

PersonRows(n) ==
  [i \in 1..n |->
     [id |-> i,
      cols |-> [f \in {"name", "phone", "email", "company", "role", "school",
                       "location"} |-> IF f = "name" THEN Str(<<"N">>) ELSE Undef]]]

InitList ==
  /\ apiKey = Str(K_good)
  /\ \E n \in {ListLimit - 1, ListLimit, ListLimit + 1} :
       db = [SeededDb EXCEPT !["person"] = PersonRows(n)]
  /\ req = [s \in Slots |-> Idle]
  /\ nreq = 0
  /\ up = TRUE
  /\ cap = MaxRequests
  /\ InitHarness

NextList ==
  \/ \E k \in KeyPairs, in \in ListInputs : ListStart(1, k[1], k[2], in)
  \/ \E o \in Outcomes : ListSelected(1, o)
  \/ \E k \in KeyPairs, in \in QuickInputs : QuickAddStart(1, k[1], k[2], in)
  \/ \E o \in Outcomes : QuickAddInserted(1, o)
  \/ Close(1)

SpecList == InitList /\ [][NextList]_vars

\* ------------------------------------------------------------------------
\* The classifier on its own: guessType applied to one text and flag.

ClassifyLeads == { <<>>, <<" ">>, <<"\n", "\t">>, <<"x">> }
ClassifyWords ==
  { <<>>, W_idea, <<"I","d","E","a">>, W_contact, <<"P","e","r","s","o","n">>,
    W_tool, <<"T","O","O","L">>, <<"i","d","e">>, <<"i","d","e","a","s">> }
ClassifySeps == { <<>>, <<":">>, <<"-">>, <<" ", ":">>, <<";">> }
ClassifyTails == { <<>>, <<" ", "A", "\n", "B">> }

ClassifyTexts ==
  { l \o w \o p \o t :
      l \in ClassifyLeads, w \in ClassifyWords, p \in ClassifySeps,
      t \in ClassifyTails }

InitClassify ==
  /\ apiKey = Str(K_good)
  /\ db = EmptyDb
  /\ req = [s \in Slots |-> Idle]
  /\ nreq = 0
  /\ up = TRUE
  /\ cap = 0
  /\ cText \in ClassifyTexts
  /\ cMedia \in BOOLEAN
  /\ cType = "none"

Classify ==
  /\ cType = "none"
  /\ cType' = guessType(cText, cMedia)
  /\ UNCHANGED <<apiKey, db, req, nreq, up, cap, cText, cMedia>>

NextClassify == Classify

SpecClassify == InitClassify /\ [][NextClassify]_vars

\* ========================================================================
\* Properties.

Served == { s \in Slots : req[s].pc # "idle" }
IsDone(r) == r.pc = "done"
Status(r) == r.sent[1].status
Body(r) == r.sent[1].body
KeyedKinds == {"quick", "research", "list", "read"}
\* The rows of table t written since r arrived.
Unchanged(r, t) == Len(db[t]) = r.seen[t]

\* The request sends no key, or the key it sends (the header, or without a
\* header the query parameter) is not the configured secret.
KeyMissing(r) == ~Truthy(r.hdr) /\ ~Truthy(r.qk)
KeyDiffers(r) ==
  \/ Truthy(r.hdr) /\ r.hdr # apiKey
  \/ ~Truthy(r.hdr) /\ Truthy(r.qk) /\ r.qk # apiKey

\* C1: a request to a key-protected handler whose key is missing or is not
\* the configured secret is answered 401, once, whatever its body or query
\* holds, and no store call is issued or pending for it and no table grows.
C1_BadKeyIs401 ==
  \A s \in Served :
    LET r == req[s] IN
    (r.kind \in KeyedKinds /\ (KeyMissing(r) \/ KeyDiffers(r)))
      => /\ IsDone(r)
         /\ Len(r.sent) = 1
         /\ Status(r) = 401
         /\ Body(r).k = "error"
         /\ r.ops = <<>>
         /\ r.pend = NoOp
         /\ \A t \in Tables : Unchanged(r, t)

\* C1 witness: a research-add whose body would pass every validation, sent
\* with a wrong key in the header and the right one in the query, got 401.
C1_Witness ==
  \E s \in Served :
    LET r == req[s] IN
    /\ r.kind = "research" /\ IsDone(r)
    /\ r.hdr = Str(K_bad) /\ r.qk = Str(K_good)
    /\ r.in.rtype = Str(W_note) /\ r.in.idea_title = Str(T_A) /\ Truthy(r.in.note)
    /\ Status(r) = 401

\* ------------------------------------------------------------------------
\* The letter c is the lower-case letter l in either case.
SameLetter(c, l) ==
  c = l \/ \E i \in 1..26 : LowerCase[i] = l /\ UpperCase[i] = c

\* text starts, after optional whitespace and ignoring case, with one of
\* words followed by ':' or '-'.
StartsWithToken(text, words) ==
  \E n \in 0..Len(text), w \in words :
    /\ \A j \in 1..n : text[j] \in {" ", "\n", "\t", "\r"}
    /\ n + Len(w) + 1 <= Len(text)
    /\ \A k \in 1..Len(w) : SameLetter(text[n + k], w[k])
    /\ text[n + Len(w) + 1] \in {":", "-"}

RuleList(text, hasMedia) ==
  IF StartsWithToken(text, {W_idea}) THEN "idea"
  ELSE IF StartsWithToken(text, {W_contact, W_person}) THEN "person"
  ELSE IF StartsWithToken(text, {W_tool}) THEN "tool"
  ELSE IF hasMedia THEN "tool"
  ELSE "unknown"

\* C3: guessType returns, for every text and flag, the result of the ordered
\* first-match-wins rule list; a text without recognized prefix and without
\* media is unknown, and a recognized prefix wins over media.
C3_GuessTypeRules ==
  cType # "none" =>
    /\ cType \in {"idea", "person", "tool", "unknown"}
    /\ cType = RuleList(cText, cMedia)
    /\ (~cMedia /\ ~StartsWithToken(cText, {W_idea, W_contact, W_person, W_tool})
          => cType = "unknown")
    /\ (StartsWithToken(cText, {W_idea}) => cType = "idea")
    /\ (StartsWithToken(cText, {W_contact, W_person}) => cType = "person")

\* C3 witness: a text with media that starts with whitespace and a
\* mixed-case "IdEa:" was classified idea.
C3_Witness ==
  /\ cType = "idea" /\ cMedia
  /\ Len(cText) > 6 /\ cText[1] = "\n" /\ cText[3] = "I" /\ cText[7] = ":"

\* ------------------------------------------------------------------------
\* C10: GET / is answered with a redirect to /app.
C10_RootRedirects ==
  \A s \in Served :
    LET r == req[s] IN
    (r.kind = "root" /\ IsDone(r))
      => r.sent = << [status |-> 302, body |-> Redirect("/app")] >>

\* ------------------------------------------------------------------------
\* Positions in r's log of the inserts into one of tables.
InsertsInto(r, tables) ==
  { k \in 1..Len(r.ops) : r.ops[k].op = "insert" /\ r.ops[k].table \in tables }
ChildTables == {"idea_note", "idea_source", "idea_fact"}
ChildTableOf(rtype) ==
  IF rtype = Str(W_note) THEN "idea_note"
  ELSE IF rtype = Str(W_ref) THEN "idea_source" ELSE "idea_fact"
\* The ideas of that title that were in the store when r arrived.
MatchesBefore(r, title) ==
  { i \in 1..r.seen["idea"] : db["idea"][i].cols.title = Str(title) }
Newest(ids) == CHOOSE i \in ids : \A j \in ids : j <= i

\* C2: a research-add answered 200 that ran with no other request in flight
\* resolved its idea by find-or-create on the trimmed title: without a match
\* it inserted exactly one Idea row holding only that title, with matches it
\* inserted none and took the most recently created match; either way it
\* inserted exactly one child row, into the table of its rtype, whose
\* idea_id is the resolved idea's id.
C2_FindOrCreate ==
  \A s \in Served :
    LET r == req[s] IN
    (r.kind = "research" /\ IsDone(r) /\ Status(r) = 200 /\ r.alone)
      => LET title == Trim(r.in.idea_title.v)
             old == MatchesBefore(r, title)
             made == InsertsInto(r, {"idea"})
             kids == InsertsInto(r, ChildTables)
             resolved == IF old = {} THEN r.ops[CHOOSE k \in made : TRUE].id
                         ELSE Newest(old)
         IN /\ old = {} => /\ Cardinality(made) = 1
                           /\ \A k \in made :
                                /\ r.ops[k].res = "ok"
                                /\ r.ops[k].id > r.seen["idea"]
                                /\ db["idea"][r.ops[k].id].cols = [title |-> Str(title)]
            /\ old # {} => made = {}
            /\ Cardinality(kids) = 1
            /\ \A k \in kids :
                 /\ r.ops[k].res = "ok"
                 /\ r.ops[k].table = ChildTableOf(r.in.rtype)
                 /\ db[r.ops[k].table][r.ops[k].id].cols.idea_id = resolved
                 /\ db["idea"][resolved].id = resolved
                 /\ db["idea"][resolved].cols.title = Str(title)

\* C2 witness: one research-add that ran alone created the idea "C", and
\* another that ran alone found the two ideas "A" of the seeded store and
\* attached its child to the newer one, id 3.
C2_Witness ==
  \E s \in Served, u \in Served :
    /\ req[s].kind = "research" /\ IsDone(req[s]) /\ Status(req[s]) = 200
    /\ req[s].alone /\ req[s].in.idea_title = Str(<<"C">>)
    /\ InsertsInto(req[s], {"idea"}) # {}
    /\ req[u].kind = "research" /\ IsDone(req[u]) /\ Status(req[u]) = 200
    /\ req[u].alone /\ req[u].in.idea_title = Str(<<" ","A"," ">>)
    /\ MatchesBefore(req[u], T_A) = {1, 3}
    /\ req[u].loc.ideaId = 3

\* ------------------------------------------------------------------------
KeyGood(r) == ~KeyMissing(r) /\ ~KeyDiffers(r)
QuickTables == {Str(W_idea), Str(W_person), Str(W_tool)}
RequiredField(type) == IF type = Str(W_idea) THEN "title" ELSE "name"
\* type is missing or not one of the three, or the required field is
\* missing or empty.
QuickInvalid(in) ==
  \/ in.type \notin QuickTables
  \/ in.payload.t # "obj"
  \/ RequiredField(in.type) \notin DOMAIN in.payload.o
  \/ in.payload.o[RequiredField(in.type)].v = <<>>
TableNamed(type) ==
  IF type = Str(W_idea) THEN "idea" ELSE IF type = Str(W_person) THEN "person" ELSE "tool"

QuickRejected(r) ==
  /\ Status(r) = 400 /\ Body(r).k = "error" /\ r.ops = <<>>
  /\ \A t \in Tables : Unchanged(r, t)
  /\ (r.in.type = Str(W_idea) => Body(r).d = "title required")

\* C4 as stated: an authenticated quick-add with a missing or unknown type or
\* a missing or empty required field gets 400 and no insert; any other gets
\* exactly one insert, into the table its type names, and 200 {ok, type}.
C4_QuickAddAsStated ==
  \A s \in Served :
    LET r == req[s] IN
    (r.kind = "quick" /\ IsDone(r) /\ KeyGood(r))
      => IF QuickInvalid(r.in) THEN QuickRejected(r)
         ELSE /\ Len(r.ops) = 1
              /\ r.ops[1].op = "insert" /\ r.ops[1].table = TableNamed(r.in.type)
              /\ Status(r) = 200 /\ Body(r) = JsonOk("type", r.in.type)

\* C4 amended: as stated, except that the one insert is a call the store
\* may refuse: the answer is 200 {ok, type} when the call returns, whatever
\* it reports, and 500 {error} when it throws; a row is written, in the
\* table the type names and with the required field as sent, only when the
\* call succeeds, and no other table grows.
C4_QuickAdd ==
  \A s \in Served :
    LET r == req[s] IN
    (r.kind = "quick" /\ IsDone(r) /\ KeyGood(r))
      => IF QuickInvalid(r.in) THEN QuickRejected(r)
         ELSE LET t == TableNamed(r.in.type)
                  f == RequiredField(r.in.type)
              IN /\ Len(r.ops) = 1
                 /\ r.ops[1].op = "insert" /\ r.ops[1].table = t
                 /\ Len(r.sent) = 1
                 /\ IF r.ops[1].res = "throw"
                    THEN Status(r) = 500 /\ Body(r) = JsonError("server error")
                    ELSE Status(r) = 200 /\ Body(r) = JsonOk("type", r.in.type)
                 /\ \A x \in Tables \ {t} : Unchanged(r, x)
                 /\ IF r.ops[1].res = "ok"
                    THEN /\ Len(db[t]) = r.seen[t] + 1
                         /\ db[t][Len(db[t])].cols[f] = r.in.payload.o[f]
                    ELSE Unchanged(r, t)

\* C4 witness: an idea with a title was inserted and acknowledged, 200.
C4_Witness ==
  \E s \in Served :
    LET r == req[s] IN
    /\ r.kind = "quick" /\ IsDone(r) /\ KeyGood(r)
    /\ r.in.type = Str(W_idea) /\ ~QuickInvalid(r.in)
    /\ Status(r) = 200 /\ r.ops[1].res = "ok"
    /\ Len(db["idea"]) = r.seen["idea"] + 1

\* ------------------------------------------------------------------------
\* C5: every call of the webhook the handler is through with was answered
\* exactly once, with the body <Response></Response>, with status 500 when a
\* store call threw and with 200 or 500 otherwise.
C5_WebhookAlwaysAcks ==
  \A s \in Served :
    LET r == req[s] IN
    (r.kind = "webhook" /\ ~InFlight(r))
      => /\ Len(r.sent) = 1
         /\ Body(r) = XmlAck
         /\ Status(r) \in {200, 500}
         /\ ((\E k \in 1..Len(r.ops) : r.ops[k].res = "throw") => Status(r) = 500)

\* ------------------------------------------------------------------------
\* C6: a request to a key-protected handler one of whose store calls came
\* back with an error is answered 500 and not with a success body.
C6_StoreErrorIs500 ==
  \A s \in Served :
    LET r == req[s] IN
    (r.kind \in KeyedKinds /\ IsDone(r)
       /\ \E k \in 1..Len(r.ops) : r.ops[k].res = "error")
      => Status(r) = 500 /\ Body(r).k = "error"

\* ------------------------------------------------------------------------
\* C7: every Idea row of the store has a title, and it is not empty.
C7_IdeaTitlesNonEmpty ==
  \A i \in 1..Len(db["idea"]) :
    /\ "title" \in DOMAIN db["idea"][i].cols
    /\ db["idea"][i].cols.title.t = "str"
    /\ db["idea"][i].cols.title.v # <<>>

\* ------------------------------------------------------------------------
AllTokens == {W_idea, W_contact, W_person, W_tool}
RecordTables == {"idea", "person", "tool"}
BodyText(r) == IF r.in.Body.t = "str" THEN r.in.Body.v ELSE <<>>
\* NumMedia counts at least one media item.
MediaSent(r) ==
  /\ r.in.NumMedia.t = "str"
  /\ ToNumber(r.in.NumMedia).k = "num"
  /\ ToNumber(r.in.NumMedia).n > 0
\* The call issued only the insert of its IngestionEvent and wrote no idea,
\* person or tool.
OnlyLogged(r) ==
  /\ \A k \in 1..Len(r.ops) : r.ops[k].table = "ingestion_event"
  /\ r.pend.table \in {"none", "ingestion_event"}
  /\ \A t \in RecordTables : Unchanged(r, t)

ListTypes == {Str(W_idea), Str(W_person), Str(W_tool)}
\* rows are the ListLimit most recently created rows of table, newest first.
NewestFirst(rows, table) ==
  /\ Len(rows) <= ListLimit
  /\ Len(rows) = IF Len(table) < ListLimit THEN Len(table) ELSE ListLimit
  /\ \A i \in 1..Len(rows) : \E j \in 1..Len(table) : rows[i] = table[j]
  /\ \A i \in 1..(Len(rows) - 1) : rows[i].id > rows[i + 1].id
  /\ \A j \in 1..Len(table) :
       (\A i \in 1..Len(rows) : rows[i] # table[j])
         => \A i \in 1..Len(rows) : table[j].id < rows[i].id

\* C9 as stated: an authenticated list whose type is not idea, person or
\* tool gets 400 and no store query; any other gets the rows of the table
\* its type names, at most 200, newest first, and the store is unchanged.
C9_ListAsStated ==
  \A s \in Served :
    LET r == req[s] IN
    (r.kind = "list" /\ IsDone(r) /\ KeyGood(r))
      => /\ \A t \in Tables : Unchanged(r, t)
         /\ IF r.in.type \notin ListTypes
            THEN Status(r) = 400 /\ r.ops = <<>>
            ELSE /\ Status(r) = 200 /\ Body(r).k = "rows"
                 /\ NewestFirst(Body(r).d, db[TableNamed(r.in.type)])

\* C9 amended: as stated when the select succeeds; when the store reports
\* an error for the select or the call throws, the answer is 500 {error}.
\* The handler issues that one select and no other store call.
C9_List ==
  \A s \in Served :
    LET r == req[s] IN
    (r.kind = "list" /\ IsDone(r) /\ KeyGood(r))
      => /\ \A t \in Tables : Unchanged(r, t)
         /\ Len(r.sent) = 1
         /\ IF r.in.type \notin ListTypes
            THEN Status(r) = 400 /\ Body(r).k = "error" /\ r.ops = <<>>
            ELSE /\ Len(r.ops) = 1
                 /\ r.ops[1].op = "select"
                 /\ r.ops[1].table = TableNamed(r.in.type)
                 /\ IF r.ops[1].res = "ok"
                    THEN /\ Status(r) = 200 /\ Body(r).k = "rows"
                         /\ NewestFirst(Body(r).d, db[TableNamed(r.in.type)])
                    ELSE Status(r) = 500 /\ Body(r) = JsonError("server error")

\* C9 witness: a list of person over a table of more than 200 rows returned
\* 200 rows.
C9_Witness ==
  \E s \in Served :
    LET r == req[s] IN
    /\ r.kind = "list" /\ IsDone(r) /\ r.in.type = Str(W_person)
    /\ Status(r) = 200
    /\ Len(db["person"]) > ListLimit
    /\ Len(Body(r).d) = ListLimit
    /\ Body(r).d[1].id = Len(db["person"])


\* ------------------------------------------------------------------------
\* The ideas of that title in the store.
IdeasTitled(title) ==
  { i \in 1..Len(db["idea"]) : db["idea"][i].cols.title = Str(title) }
\* The ids of the Idea rows r created, and the idea ids its child rows carry.
MadeIds(r) == { r.ops[k].id : k \in InsertsInto(r, {"idea"}) }
KidIdeaIds(r) ==
  { db[r.ops[k].table][r.ops[k].id].cols.idea_id : k \in InsertsInto(r, ChildTables) }
\* The successful inserts of r into table t.
Wrote(r, t) ==
  Cardinality({ k \in InsertsInto(r, {t}) : r.ops[k].res = "ok" })
\* a and b were served one after the other, a first, and nothing else wrote
\* to the store in between: each ran with no other request in flight, and b
\* arrived at the store as a left it.
OneAfterTheOther(a, b) ==
  /\ a.alone /\ b.alone
  /\ \A t \in Tables : b.seen[t] = a.seen[t] + Wrote(a, t)
\* Both handlers went through the insert of getIdeaId: each lookup came
\* back empty, so both lookups completed before either insert.
BothCreated(a, b) == MadeIds(a) # {} /\ MadeIds(b) # {}
\* Two research-adds answered 200 for the same trimmed title, which no idea
\* carried when a arrived.
SameNewTitle(a, b) ==
  /\ a.kind = "research" /\ IsDone(a) /\ Status(a) = 200
  /\ b.kind = "research" /\ IsDone(b) /\ Status(b) = 200
  /\ a.loc.title = b.loc.title
  /\ MatchesBefore(a, a.loc.title) = {}

\* C11: of two research-adds answered 200 for the same new idea_title, when
\* their handlers interleave so that both lookups of getIdeaId complete
\* before either insert, the store holds two Idea rows of that title and
\* each request's child row references the Idea its own handler created, a
\* different id for each; when the two are served one after the other, the
\* store holds exactly one Idea row of that title, created by the first,
\* and both child rows reference it.
C11_RaceOnIdea ==
  \A s \in Served, u \in Served :
    LET a == req[s]
        b == req[u]
    IN (s # u /\ SameNewTitle(a, b))
         => LET rows == IdeasTitled(a.loc.title) IN
            /\ BothCreated(a, b)
                 => /\ rows = MadeIds(a) \cup MadeIds(b)
                    /\ Cardinality(rows) = 2
                    /\ KidIdeaIds(a) = MadeIds(a)
                    /\ KidIdeaIds(b) = MadeIds(b)
                    /\ KidIdeaIds(a) \cap KidIdeaIds(b) = {}
            /\ OneAfterTheOther(a, b)
                 => /\ rows = MadeIds(a)
                    /\ Cardinality(rows) = 1
                    /\ MadeIds(b) = {}
                    /\ KidIdeaIds(a) = rows
                    /\ KidIdeaIds(b) = rows

\* C11 witness: the race happened. Two research-adds for the new title "C"
\* were in flight together, both created an Idea, both were answered 200,
\* and the store holds two ideas "C" with one child row each.
C11_Witness ==
  \E s \in Served, u \in Served :
    /\ s # u /\ SameNewTitle(req[s], req[u])
    /\ req[s].loc.title = <<"C">>
    /\ ~req[s].alone /\ ~req[u].alone
    /\ BothCreated(req[s], req[u])
    /\ Cardinality(IdeasTitled(<<"C">>)) = 2
    /\ KidIdeaIds(req[s]) # KidIdeaIds(req[u])

\* The other half of C11 happened: the same two requests were served one
\* after the other and share the one idea "C".
C11_SequentialReached ==
  \E s \in Served, u \in Served :
    /\ s # u /\ SameNewTitle(req[s], req[u])
    /\ req[s].loc.title = <<"C">>
    /\ OneAfterTheOther(req[s], req[u])
    /\ Cardinality(IdeasTitled(<<"C">>)) = 1
    /\ KidIdeaIds(req[s]) = KidIdeaIds(req[u])


\* ------------------------------------------------------------------------
\* The text after the prefix that guessType matched: past the leading
\* whitespace, the token, its colon or dash and the whitespace after it.
AfterIdeaPrefix(text) ==
  LET i == SkipWs(text, 1) IN
  SubSeq(text, SkipWs(text, i + Len(W_idea) + 1), Len(text))
\* The title and summary that text gives once the prefix is removed.
TitleAfterPrefix(text) ==
  LET first == Trim(Split(AfterIdeaPrefix(text), "\n")[1]) IN
  IF first = <<>> THEN Str(T_UntitledIdea) ELSE Str(first)
SummaryAfterPrefix(text) ==
  LET rest == Trim(Join(Tail(Split(AfterIdeaPrefix(text), "\n")), "\n")) IN
  IF rest = <<>> THEN Null ELSE Str(rest)
\* x is a text that holds the token with its colon or dash somewhere.
HoldsIdeaToken(x) ==
  /\ x.t = "str"
  /\ \E k \in 1..Len(x.v) :
       /\ LitAt(x.v, k, W_idea)
       /\ k + Len(W_idea) <= Len(x.v)
       /\ IsColonDash(x.v[k + Len(W_idea)])
\* The idea rows the webhook call r has handed to the store: the insert it
\* awaits and the rows it wrote.
IdeaRowsOf(r) ==
  { r.pend.cols : x \in { y \in {1} : r.pend.op = "insert" /\ r.pend.table = "idea" } }
    \cup { db["idea"][r.ops[k].id].cols :
             k \in { j \in InsertsInto(r, {"idea"}) : r.ops[j].res = "ok" } }

\* C12: for every webhook body that guessType classifies as idea, the row
\* the handler inserts has for title the trimmed first line of the text
\* after the matched prefix ('Untitled Idea' when that line is empty) and
\* for summary the remaining lines joined and trimmed (null when empty);
\* and unless the text after the prefix holds the token again, neither
\* title nor summary holds it.
C12_IdeaPrefixRemoved ==
  \A s \in Served :
    LET r == req[s] IN
    (r.kind = "webhook" /\ r.pc \in {"rec", "done"}
       /\ guessType(BodyText(r), MediaSent(r)) = "idea")
      => \A row \in IdeaRowsOf(r) :
           /\ row.title = TitleAfterPrefix(BodyText(r))
           /\ row.summary = SummaryAfterPrefix(BodyText(r))
           /\ ~HoldsIdeaToken(Str(AfterIdeaPrefix(BodyText(r))))
                => ~HoldsIdeaToken(row.title) /\ ~HoldsIdeaToken(row.summary)

\* The bodies whose prefix starts on the first line are handled as C12
\* says: the same statement for bodies with no line break before the token.
C12_FirstLinePrefixRemoved ==
  \A s \in Served :
    LET r == req[s]
        text == BodyText(r)
    IN (r.kind = "webhook" /\ r.pc \in {"rec", "done"}
          /\ guessType(text, MediaSent(r)) = "idea"
          /\ \A j \in 1..(SkipWs(text, 1) - 1) : ~IsLineTerm(text[j]))
         => \A row \in IdeaRowsOf(r) :
              /\ row.title = TitleAfterPrefix(text)
              /\ row.summary = SummaryAfterPrefix(text)

\* A webhook call wrote the idea of "idea: A\nB": title "A", summary "B".
C12_FirstLineReached ==
  \E s \in Served :
    /\ req[s].kind = "webhook" /\ IsDone(req[s])
    /\ [title |-> Str(<<"A">>), summary |-> Str(<<"B">>)] \in IdeaRowsOf(req[s])


\* ------------------------------------------------------------------------
\* The research-add r was answered 400.
Research400(r) == r.kind = "research" /\ IsDone(r) /\ Status(r) = 400

\* C13: a research-add answered 400 issued no insert, and every table of
\* the store holds the rows it held when the request arrived: no Idea row
\* and no child row was created by it.
C13_Research400NoWrite ==
  \A s \in Served :
    LET r == req[s] IN
    Research400(r)
      => /\ InsertsInto(r, Tables) = {}
         /\ \A t \in Tables : Unchanged(r, t)

\* What does hold of a research-add answered 400: it wrote no child row; it
\* wrote nothing at all when rtype or idea_title was missing, or when an
\* idea of the trimmed title existed; and otherwise, the 400 coming from
\* the validation made after getIdeaId, it wrote the one Idea row that
\* getIdeaId created.
C13_Research400Writes ==
  \A s \in Served :
    LET r == req[s] IN
    Research400(r)
      => /\ InsertsInto(r, ChildTables) = {}
         /\ \A t \in Tables \ {"idea"} : Unchanged(r, t)
         /\ (~Truthy(r.in.rtype) \/ ~Truthy(r.in.idea_title))
              => r.ops = <<>> /\ Unchanged(r, "idea")
         /\ (Truthy(r.in.rtype) /\ Truthy(r.in.idea_title))
              => IF MatchesBefore(r, Trim(r.in.idea_title.v)) # {}
                 THEN Unchanged(r, "idea") /\ InsertsInto(r, {"idea"}) = {}
                 ELSE /\ Len(db["idea"]) = r.seen["idea"] + 1
                      /\ db["idea"][Len(db["idea"])].cols
                           = [title |-> Str(Trim(r.in.idea_title.v))]

\* A research-add of an unknown rtype for an existing title was answered
\* 400 after its lookup, and wrote nothing.
C13_Found400Reached ==
  \E s \in Served :
    /\ Research400(req[s])
    /\ Len(req[s].ops) = 1
    /\ \A t \in Tables : Unchanged(req[s], t)

====
